---- MODULE Spec2Model ----
(***************************************************************************)
(* The quiz session and progress ledger of CFA.Prep.2.0, in its two        *)
(* variants: the Python Shiny application (src/quiz_app.py, variant "py")  *)
(* and the R Shiny application (src/app.py, variant "r").                  *)
(*                                                                         *)
(* One state of the model is the content of the reactive values `quiz`     *)
(* and `progress`, the progress file Data/progress_data.json, the click    *)
(* counters of the Python action buttons, and the wall clock.  One action  *)
(* is one run of an event handler or of a render function; handlers run    *)
(* to completion.  An input event may arrive in any state: the server      *)
(* accepts whatever the client sends, and a second click can be under way  *)
(* before the page is redrawn.                                             *)
(*                                                                         *)
(* Shiny re-executes a render function or an effect when a reactive value  *)
(* it read is invalidated.  The model does not track those dependencies:   *)
(* a render may run in any state in which its guard holds, and the         *)
(* re-execution of a Python effect that reads the click counters is one    *)
(* more click action on a button that is already pressed.  Every run of    *)
(* the program is a behaviour of the model.  The R results screen reads    *)
(* and assigns rv$progress, so it invalidates itself and does run again.   *)
(*                                                                         *)
(* No handler branches on the clock, so Spec runs every handler at one     *)
(* clock reading; SpecTimed lets the clock advance between handler runs,   *)
(* over fewer question files and progress files.                           *)
(*                                                                         *)
(* server() builds the repository index from the question file before any *)
(* handler runs.  SpecLoad starts before that and runs load_questions as   *)
(* its first step; the other specifications start after it, with the       *)
(* index given and the question file left unread.                          *)
(***************************************************************************)
EXTENDS Integers, Sequences, FiniteSets, TLC

\* ---------------------------------------------------------------- bounds
MaxPool == 2        \* questions in the repository
MaxTime == 1        \* clock ticks
MaxAttempts == 2    \* ledger entries
MaxClicks == 1      \* registration clicks
MaxSubmits == 2     \* accepted submissions in one session
MaxIndex == 4       \* value of current_index
MaxPressed == 1     \* distinct exam buttons pressed (Python click counters)
MaxSelections == 2  \* distinct exam buttons pressed in SpecButtons
MaxShuffle == 4     \* lists up to this length are drawn from in every order; of a
                    \* longer list only this many rotations are drawn

\* ------------------------------------------------------ program constants
PER_CATEGORY == 2           \* min(2, len(category_questions))
SUPER_HARD_PER_CATEGORY == 3
target_per_difficulty == 10
BALANCED_MIN == 15          \* len(questions) < 15
QUICK_SIZE == 5
RANDOM_MIX_SIZE == 20

\* The ten keys of CATEGORIES, in the order of the table.
CATEGORIES ==
    <<"Ethical and Professional Standards", "Quantitative Methods", "Economics",
      "Financial Statement Analysis", "Corporate Issuers", "Equity Investments",
      "Fixed Income", "Derivatives", "Alternative Investments", "Portfolio Management">>
DIFFICULTIES == <<"easy", "medium", "hard">>
BalancedNumbers == 1..2     \* the first two of balanced_1 .. balanced_5

None == <<>>
Some(v) == <<v>>

VARIABLES
    variant,        \* "py": src/quiz_app.py, "r": src/app.py
    alive,          \* FALSE once an unhandled error in a handler closed the session
    loaded,         \* the startup load of the progress file has run
    now,            \* time.time() / Sys.time()
    all_questions,  \* quiz["all_questions"]: category -> difficulty -> questions
    quiz,           \* the other fields of the reactive value quiz
    progress,       \* the reactive value progress (the in-memory ledger)
    store,          \* the file Data/progress_data.json
    input,          \* Python: the action buttons whose click counter is > 0
    audit,          \* history: what happened since the last start of an exam
    other,          \* the reactive values and history of a second user session
    source          \* the file Data/updated_questions_with_5_options_final.json

vars == <<variant, alive, loaded, now, all_questions, quiz, progress, store, input, audit, other, source>>

\* ------------------------------------------------------------- sequences
Min(a, b) == IF a < b THEN a ELSE b

Range(s) == {s[i] : i \in 1..Len(s)}

Index(s, x) == CHOOSE i \in 1..Len(s) : s[i] = x

Injections(n, k) == {f \in [1..k -> 1..n] : \A i, j \in 1..k : i # j => f[i] # f[j]}

\* The orders in which k of n positions are drawn.
Orders(n, k) ==
    IF n <= MaxShuffle THEN Injections(n, k)
    ELSE {[i \in 1..k |-> ((r + i - 1) % n) + 1] : r \in 0..(MaxShuffle - 1)}

\* random.sample(s, k) / sample(s, k): k elements at distinct positions, any order
Sample(s, k) == {[i \in 1..k |-> s[f[i]]] : f \in Orders(Len(s), k)}

\* random.shuffle(s) / sample(s)
Shuffle(s) == Sample(s, Len(s))

Take(s, k) == SubSeq(s, 1, Min(k, Len(s)))

\* ------------------------------------------------------------- questions
OPTIONS == <<"A", "B">>

\* The k-th question of bucket (category c, difficulty d) of the question file.
Question(c, d, k) ==
    [category |-> c, difficulty |-> d, id |-> k, options |-> OPTIONS,
     correct_answer |-> OPTIONS[((k + Index(DIFFICULTIES, d)) % 2) + 1]]

Buckets == {<<c, d>> : c \in Range(CATEGORIES), d \in Range(DIFFICULTIES)}

\* The index load_questions() builds from a file with n[c, d] questions per bucket.
IndexOf(n) ==
    [c \in Range(CATEGORIES) |->
        [d \in Range(DIFFICULTIES) |-> [k \in 1..n[<<c, d>>] |-> Question(c, d, k)]]]

\* Question files: j questions, either all in one bucket or one per bucket.
SpreadOrder ==
    << <<CATEGORIES[1], "easy">>, <<CATEGORIES[2], "hard">>, <<CATEGORIES[1], "medium">>,
       <<CATEGORIES[2], "easy">>, <<CATEGORIES[1], "hard">>, <<CATEGORIES[2], "medium">> >>

Stacked(j) == [b \in Buckets |-> IF b = SpreadOrder[1] THEN j ELSE 0]

Spread(j) == [b \in Buckets |-> IF \E i \in 1..Min(j, Len(SpreadOrder)) : SpreadOrder[i] = b THEN 1 ELSE 0]

Repositories == {IndexOf(Stacked(j)) : j \in 0..MaxPool} \cup {IndexOf(Spread(j)) : j \in 0..MaxPool}

\* A question file with more questions in a bucket than an exam takes from it:
\* three easy and four hard questions in the first category, one easy in the second.
DeepFile ==
    [b \in Buckets |->
        CASE b = <<CATEGORIES[1], "easy">> -> 3
          [] b = <<CATEGORIES[2], "easy">> -> 1
          [] b = <<CATEGORIES[1], "hard">> -> 4
          [] OTHER -> 0]

\* A question file that is wide enough for a balanced exam: one easy question in
\* every category but the last, which has three; one medium question in each of the
\* first three categories; one hard question in each of the first h categories.
WideFile(h) ==
    [b \in Buckets |->
        CASE b[2] = "easy" -> IF b[1] = CATEGORIES[Len(CATEGORIES)] THEN 3 ELSE 1
          [] b[2] = "medium" -> IF Index(CATEGORIES, b[1]) <= 3 THEN 1 ELSE 0
          [] OTHER -> IF Index(CATEGORIES, b[1]) <= h THEN 1 ELSE 0]

\* A question file with a category of more than 20 questions and a pool of more
\* than 20: seven questions in each bucket of the first category, two easy and two
\* hard questions in the second.
BigFile ==
    [b \in Buckets |->
        CASE b[1] = CATEGORIES[1] -> 7
          [] b = <<CATEGORIES[2], "easy">> -> 2
          [] b = <<CATEGORIES[2], "hard">> -> 2
          [] OTHER -> 0]

MixRepositories ==
    {IndexOf(Stacked(0)), IndexOf(Stacked(3)), IndexOf(DeepFile), IndexOf(BigFile)}

ComposeRepositories ==
    {IndexOf(Stacked(0)), IndexOf(DeepFile), IndexOf(WideFile(1)), IndexOf(WideFile(2))}

\* ------------------------------------------------------ exam composition
Pool(c, d) == all_questions[c][d]

RECURSIVE SampleEach(_, _, _)
\* for category in CATEGORIES: questions.extend(random.sample(pool, min(k, len(pool))))
\* (the sample of an empty pool is empty and extends the list by nothing)
SampleEach(i, d, k) ==
    IF i > Len(CATEGORIES) THEN {<<>>}
    ELSE IF Pool(CATEGORIES[i], d) = <<>> THEN SampleEach(i + 1, d, k)
    ELSE {a \o b : a \in Sample(Pool(CATEGORIES[i], d), Min(k, Len(Pool(CATEGORIES[i], d)))),
                   b \in SampleEach(i + 1, d, k)}

RECURSIVE AllOf(_)
\* for category: for difficulty: questions.extend(pool)
AllOf(i) ==
    IF i > Len(CATEGORIES) THEN <<>>
    ELSE Pool(CATEGORIES[i], "easy") \o Pool(CATEGORIES[i], "medium")
         \o Pool(CATEGORIES[i], "hard") \o AllOf(i + 1)

CategoryQuestions(c) == Pool(c, "easy") \o Pool(c, "medium") \o Pool(c, "hard")

UnionOf(S) == UNION S

\* Mutant of PracticeTestExams: three per category.
PracticeTestExams_three(d) == UnionOf({Shuffle(q) : q \in SampleEach(1, d, SUPER_HARD_PER_CATEGORY)})

\* start_practice_test: two per category at one difficulty, shuffled
PracticeTestExams(d) == UnionOf({Shuffle(q) : q \in SampleEach(1, d, PER_CATEGORY)})

\* Mutant of SuperHardExams: two per category.
SuperHardExams_two == UnionOf({Shuffle(q) : q \in SampleEach(1, "hard", PER_CATEGORY)})

\* start_super_hard_exam: three hard questions per category, shuffled
SuperHardExams == UnionOf({Shuffle(q) : q \in SampleEach(1, "hard", SUPER_HARD_PER_CATEGORY)})

\* Mutant of BalancedPart: all of the two-per-category pool.
BalancedPart_uncapped(d) == UnionOf({Shuffle(q) : q \in SampleEach(1, d, PER_CATEGORY)})

\* start_balanced_exam: per difficulty, up to 10 of the two-per-category pool
BalancedPart(d) ==
    UnionOf({Sample(q, Min(target_per_difficulty, Len(q))) : q \in SampleEach(1, d, PER_CATEGORY)})

BalancedUnshuffled ==
    {e \o m \o h : e \in BalancedPart("easy"), m \in BalancedPart("medium"), h \in BalancedPart("hard")}

BalancedExams == UnionOf({Shuffle(q) : q \in BalancedUnshuffled})

\* Mutant of QuickExams: four of the whole pool.
QuickExams_four == Sample(AllOf(1), QUICK_SIZE - 1)

\* start_quick_quiz: five of the whole pool (only called with len >= 5)
QuickExams == Sample(AllOf(1), QUICK_SIZE)

\* Mutant of RandomMixExams: the whole pool shuffled, not cut.
RandomMixExams_uncut == Shuffle(AllOf(1))

\* start_random_mix: the whole pool shuffled, cut to 20
RandomMixExams == {Take(q, RANDOM_MIX_SIZE) : q \in Shuffle(AllOf(1))}

\* ------------------------------------------------------- progress ledger
EmptyProgress ==
    [attempts |-> <<>>, scores |-> <<>>, time_spent |-> <<>>, dates |-> <<>>,
     registration_clicks |-> 0, last_registration_click |-> None]

\* A score is the float score / total, kept as the pair <<score, total>>.
Ratio(s, n) == <<s, n>>

SameRatio(a, b) == a[1] * b[2] = b[1] * a[2]

\* strftime("%Y-%m-%d"): the clock cut to days (two ticks a day)
Date(t) == t \div 2

\* The progress file: absent, unreadable, or JSON text.
Missing == [kind |-> "missing"]

Corrupt == [kind |-> "corrupt"]

JsonFile(text) == [kind |-> "json", text |-> text]

\* json.dump(progress(), f): Python floats, ints, strings and None are written in full
py_json_dump(p) == JsonFile(p)

\* json.load(f)
py_json_load(f) == f.text

\* toJSON rounds a number to 4 decimal digits (jsonlite's default digits = 4)
Round4(r) == <<(2 * 10000 * r[1] + r[2]) \div (2 * r[2]), 10000>>

\* write_json(rv$progress, "Data/progress_data.json", auto_unbox = TRUE)
r_write_json(p) == JsonFile([p EXCEPT !.scores = [i \in 1..Len(p.scores) |-> Round4(p.scores[i])]])

\* fromJSON("Data/progress_data.json")
r_fromJSON(f) == f.text

StoredLedger ==
    [attempts |-> <<1>>, scores |-> <<Ratio(1, 2)>>, time_spent |-> <<1>>, dates |-> <<0>>,
     registration_clicks |-> 0, last_registration_click |-> None]

InitialStores == {Missing, Corrupt, JsonFile(StoredLedger)}

\* ------------------------------------------------------- question file
\* The question file of a specification that starts with the index built.
Unread == [kind |-> "unread"]

\* all_questions before server() has run load_questions
Unloaded == [unloaded |-> TRUE]

TOPIC_TO_CATEGORY ==
    ("Ethical & Professional Standards" :> "Ethical and Professional Standards")
    @@ ("Quantitative Methods" :> "Quantitative Methods")
    @@ ("Economics" :> "Economics")
    @@ ("Financial Reporting & Analysis" :> "Financial Statement Analysis")
    @@ ("Corporate Issuers" :> "Corporate Issuers")
    @@ ("Equity Investments" :> "Equity Investments")
    @@ ("Fixed Income" :> "Fixed Income")
    @@ ("Derivatives" :> "Derivatives")
    @@ ("Alternative Investments" :> "Alternative Investments")
    @@ ("Portfolio Management" :> "Portfolio Management")

\* str.strip() / trimws(), on the topics that occur in the question files
Strip(t) == CASE t = " Economics " -> "Economics" [] t = "Derivatives " -> "Derivatives" [] OTHER -> t

\* str.lower() / tolower(), on the difficulties that occur in the question files
Lower(d) ==
    CASE d = "Easy" -> "easy" [] d = "Medium" -> "medium" [] d = "HARD" -> "hard"
      [] d = " Easy" -> " easy" [] OTHER -> d

\* question.get(key, default) / ifelse(is.null(question$key), default, question$key)
Get(q, key, default) == IF key \in DOMAIN q THEN q[key] ELSE default

\* An element of "questions" that is a JSON object with the keys of a question.
SourceQuestion(k, topic, difficulty) ==
    [json |-> "object", id |-> k, topic |-> topic, difficulty |-> difficulty,
     options |-> OPTIONS, correct_answer |-> OPTIONS[(k % 2) + 1]]

\* A question object without the key "difficulty".
NoDifficulty(k, topic) ==
    [json |-> "object", id |-> k, topic |-> topic,
     options |-> OPTIONS, correct_answer |-> OPTIONS[(k % 2) + 1]]

\* An element of "questions" that is the empty JSON array.
EmptyArray == [json |-> "array"]

SourceQuestions ==
    <<SourceQuestion(1, "Economics", "easy"),
      SourceQuestion(2, " Economics ", "Easy"),
      SourceQuestion(3, "Financial Reporting & Analysis", "HARD"),
      SourceQuestion(4, "Financial Statement Analysis", "Medium"),
      SourceQuestion(5, "Ethics", "medium"),
      SourceQuestion(6, "Economics", "expert"),
      SourceQuestion(7, "Derivatives ", " Easy"),
      NoDifficulty(8, "Economics")>>

\* {"questions": [...]}
Document(qs) == [json |-> "object", questions |-> qs]

\* The question files: missing, not JSON, a JSON array, an object without
\* "questions", the first n source questions, and the first n source questions
\* followed by an empty array.
QuestionFiles ==
    {Missing, Corrupt, JsonFile([json |-> "array"]), JsonFile([json |-> "object"])}
    \cup {JsonFile(Document(Take(SourceQuestions, n))) : n \in 0..Len(SourceQuestions)}
    \cup {JsonFile(Document(Take(SourceQuestions, n) \o <<EmptyArray>>)) : n \in 1..Len(SourceQuestions)}

\* {cat: {'easy': [], 'medium': [], 'hard': []} for cat in CATEGORIES}
EmptyIndex == [c \in Range(CATEGORIES) |-> [d \in Range(DIFFICULTIES) |-> <<>>]]

\* The body of the loop of load_questions for one element of "questions".
Place(index, question) ==
    LET topic == Strip(Get(question, "topic", ""))
        category == IF topic \in DOMAIN TOPIC_TO_CATEGORY THEN TOPIC_TO_CATEGORY[topic] ELSE topic
        difficulty == Lower(Get(question, "difficulty", "medium"))
    IN  IF category \in DOMAIN index /\ difficulty \in Range(DIFFICULTIES)
        THEN [index EXCEPT ![category][difficulty] = Append(@, question)]
        ELSE index

RECURSIVE PlaceAll(_, _, _)
PlaceAll(qs, i, index) ==
    IF i > Len(qs) THEN index ELSE PlaceAll(qs, i + 1, Place(index, qs[i]))

\* Mutant of py_load_questions: the error handler returns no index.
py_load_questions_no_fallback(f) ==
    IF f.kind # "json" \/ f.text.json # "object" THEN Unread
    ELSE PlaceAll(Get(f.text, "questions", <<>>), 1, EmptyIndex)

\* Python load_questions(): open() or json.load() fails on a missing or unparsable
\* file, questions_data.get on a JSON array and question.get on an element that is
\* not an object; the handler of each returns the empty index.
py_load_questions(f) ==
    IF f.kind # "json" THEN EmptyIndex
    ELSE IF f.text.json # "object" THEN EmptyIndex
    ELSE LET qs == Get(f.text, "questions", <<>>)
         IN  IF \E i \in 1..Len(qs) : qs[i].json # "object" THEN EmptyIndex
             ELSE PlaceAll(qs, 1, EmptyIndex)

\* jsonlite::fromJSON simplifies a non-empty array whose elements are all objects to
\* a data frame.
IsDataFrame(qs) == Len(qs) > 0 /\ \A i \in 1..Len(qs) : qs[i].json = "object"

\* R load_questions(): fromJSON fails on a missing or unparsable file.  Over a data
\* frame `for (question in ...)` runs once per column, and question$topic on a
\* column, an atomic vector, is an error; the handler returns the empty index.  Over
\* a list it runs once per element, and an empty array has no topic.
r_load_questions(f) ==
    IF f.kind # "json" THEN EmptyIndex
    ELSE IF "questions" \notin DOMAIN f.text THEN EmptyIndex
    ELSE IF IsDataFrame(f.text.questions) THEN EmptyIndex
    ELSE PlaceAll(f.text.questions, 1, EmptyIndex)

\* --------------------------------------------------------------- session
NoAnswer == ""

\* What a client can send as the selected radio button.
Answers == {"A", "B", "X", NoAnswer}

\* Python lists count from 0, R lists from 1.
First == IF variant = "py" THEN 0 ELSE 1

NumQuestions == Len(quiz.current_questions)

\* The question at current_index (questions[idx] / current_questions[[current_index]]).
CurrentQuestion == quiz.current_questions[quiz.current_index - First + 1]

InRange == quiz.current_index - First + 1 \in 1..NumQuestions

Completed == NumQuestions > 0 /\ quiz.current_index - First >= NumQuestions

\* Mutant of IsCorrect: every answer counts as correct.
IsCorrect_any(question, user_answer) == TRUE

\* if user_answer == question["correct_answer"] / if (user_answer == question$correct_answer)
IsCorrect(question, user_answer) == user_answer = question.correct_answer

\* History: the submission the handler accepted (it appended to time_spent) is counted.
AuditSubmission(user_answer) ==
    IF Len(quiz'.time_spent) = Len(quiz.time_spent) + 1
    THEN [audit EXCEPT !.accepted = @ + 1,
                       !.correct = IF user_answer = CurrentQuestion.correct_answer THEN @ + 1 ELSE @]
    ELSE audit

NewAudit == [started |-> Some(now), correct |-> 0, accepted |-> 0, entries |-> 0, written |-> 0]

\* The handlers of the exam screens run in a live session whose index is built
\* and whose ledger is loaded.
Ready == alive /\ loaded /\ all_questions # Unloaded

InitialQuiz(v) ==
    IF v = "py"
    THEN [current_questions |-> <<>>, score |-> 0, current_index |-> 0, start_time |-> 0,
          question_start |-> 0, time_spent |-> <<>>, mode |-> "main_menu",
          selected_category |-> None, test_type |-> None, exam_number |-> None]
    ELSE [current_questions |-> <<>>, score |-> 0, current_index |-> 1, submitted |-> FALSE,
          start_time |-> 0, question_start |-> 0, time_spent |-> <<>>, mode |-> "main_menu",
          selected_category |-> None, test_type |-> None, exam_number |-> None]

\* The state server() creates for a user session.
NewSession(v) ==
    [alive |-> TRUE, loaded |-> FALSE, quiz |-> InitialQuiz(v), progress |-> EmptyProgress,
     input |-> {}, audit |-> [started |-> None, correct |-> 0, accepted |-> 0, entries |-> 0, written |-> 0]]

Init ==
    /\ variant \in {"py", "r"}
    /\ alive = TRUE
    /\ loaded = FALSE
    /\ now = 0
    /\ all_questions \in Repositories
    /\ quiz = InitialQuiz(variant)
    /\ progress = EmptyProgress
    /\ store \in InitialStores
    /\ input = {}
    /\ audit = [started |-> None, correct |-> 0, accepted |-> 0, entries |-> 0, written |-> 0]
    /\ other = NewSession(variant)
    /\ source = Unread

\* The wall clock advances between handler runs.
Tick ==
    /\ now < MaxTime
    /\ now' = now + 1
    /\ UNCHANGED <<variant, other, source, alive, loaded, all_questions, quiz, progress, store, input, audit>>

\* ------------------------------------------------------- src/quiz_app.py
\* load_progress_data: runs once when the session starts
py_load_progress_data ==
    /\ variant = "py" /\ alive /\ ~loaded
    /\ loaded' = TRUE
    /\ progress' = IF store.kind = "json" THEN py_json_load(store) ELSE progress
    /\ UNCHANGED <<variant, other, source, alive, now, all_questions, quiz, store, input, audit>>

\* Mutant of py_save_progress: the last entry is added to the ledger in the file.
py_save_progress_merge(p) ==
    store' = IF store.kind = "json" /\ Len(p.attempts) > 0
             THEN py_json_dump([p EXCEPT
                      !.attempts = Append(store.text.attempts, Len(store.text.attempts) + 1),
                      !.scores = Append(store.text.scores, p.scores[Len(p.scores)]),
                      !.time_spent = Append(store.text.time_spent, p.time_spent[Len(p.time_spent)]),
                      !.dates = Append(store.text.dates, p.dates[Len(p.dates)])])
             ELSE py_json_dump(p)

\* save_progress: open(..., 'w') then json.dump; any exception is printed
py_save_progress(p) == store' \in {py_json_dump(p), store, Corrupt}

\* new_quiz.update({...}) of the start_* functions and of handle_category_selection
py_update(qs, label, type) ==
    [quiz EXCEPT !.current_questions = qs, !.current_index = 0,
                 !.selected_category = Some(label), !.question_start = now,
                 !.score = 0, !.time_spent = <<>>, !.test_type = Some(type),
                 !.mode = "question"]

Capitalize(d) == CASE d = "easy" -> "Easy" [] d = "medium" -> "Medium" [] d = "hard" -> "Hard"

py_start_balanced_exam(i) ==
    \E qs \in BalancedExams :
        IF Len(qs) < BALANCED_MIN
        THEN UNCHANGED <<quiz, audit>>
        ELSE /\ quiz' = [py_update(qs, <<"Balanced Exam", i>>, "balanced_exam") EXCEPT !.exam_number = Some(i)]
             /\ audit' = NewAudit

py_start_practice_test(d) ==
    \E qs \in PracticeTestExams(d) :
        IF Len(qs) = 0
        THEN UNCHANGED <<quiz, audit>>
        ELSE /\ quiz' = py_update(qs, <<Capitalize(d), "Exam">>, "practice_test")
             /\ audit' = NewAudit

py_start_super_hard_exam ==
    \E qs \in SuperHardExams :
        IF Len(qs) = 0
        THEN UNCHANGED <<quiz, audit>>
        ELSE /\ quiz' = py_update(qs, <<"Super Hard Exam">>, "super_hard")
             /\ audit' = NewAudit

\* Mutant of py_start_quick_quiz: a refused start resets the score and the times.
py_start_quick_quiz_resets ==
    IF Len(AllOf(1)) < QUICK_SIZE
    THEN /\ quiz' = [quiz EXCEPT !.score = 0, !.time_spent = <<>>]
         /\ UNCHANGED audit
    ELSE \E qs \in QuickExams :
             /\ quiz' = py_update(qs, <<"Quick Quiz">>, "quick_quiz")
             /\ audit' = NewAudit

py_start_quick_quiz ==
    IF Len(AllOf(1)) < QUICK_SIZE
    THEN UNCHANGED <<quiz, audit>>
    ELSE \E qs \in QuickExams :
             /\ quiz' = py_update(qs, <<"Quick Quiz">>, "quick_quiz")
             /\ audit' = NewAudit

py_start_random_mix ==
    \E qs \in RandomMixExams :
        IF Len(qs) = 0
        THEN UNCHANGED <<quiz, audit>>
        ELSE /\ quiz' = py_update(qs, <<"Random Mix">>, "random_mix")
             /\ audit' = NewAudit

Button(name, i) == <<name, i>>

DifficultyButtons ==
    {Button("balanced", i) : i \in BalancedNumbers}
    \cup {Button(b, 0) : b \in {"easy_exam", "medium_exam", "hard_exam", "super_hard", "quick_quiz", "random_mix"}}

CategoryButtons == {Button("category", i) : i \in 1..Len(CATEGORIES)}

Pressed(inp, name, i) == Button(name, i) \in inp

\* handle_difficulty_selection, reading the click counters inp
py_handle_difficulty_selection(inp) ==
    IF \E i \in BalancedNumbers : Pressed(inp, "balanced", i)
    THEN py_start_balanced_exam(CHOOSE i \in BalancedNumbers :
             /\ Pressed(inp, "balanced", i)
             /\ \A j \in BalancedNumbers : Pressed(inp, "balanced", j) => i <= j)
    ELSE IF Pressed(inp, "easy_exam", 0) THEN py_start_practice_test("easy")
    ELSE IF Pressed(inp, "medium_exam", 0) THEN py_start_practice_test("medium")
    ELSE IF Pressed(inp, "hard_exam", 0) THEN py_start_practice_test("hard")
    ELSE IF Pressed(inp, "super_hard", 0) THEN py_start_super_hard_exam
    ELSE IF Pressed(inp, "quick_quiz", 0) THEN py_start_quick_quiz
    ELSE IF Pressed(inp, "random_mix", 0) THEN py_start_random_mix
    ELSE UNCHANGED <<quiz, audit>>

\* A click on a button of the difficulty screen: its counter goes up and
\* handle_difficulty_selection runs.
py_difficulty_click(b) ==
    /\ variant = "py" /\ Ready
    /\ b \in input \/ Cardinality(input) < MaxPressed
    /\ input' = input \cup {b}
    /\ py_handle_difficulty_selection(input')
    /\ UNCHANGED <<variant, other, source, alive, loaded, now, all_questions, progress, store>>

\* handle_category_selection: every category whose counter is > 0 is started in
\* turn, so the quiz is left as the last of them set it.
py_handle_category_selection(inp) ==
    LET last == CHOOSE i \in 1..Len(CATEGORIES) :
                    /\ Pressed(inp, "category", i)
                    /\ \A j \in 1..Len(CATEGORIES) : Pressed(inp, "category", j) => j <= i
    IN  /\ quiz' = py_update(CategoryQuestions(CATEGORIES[last]), <<CATEGORIES[last]>>, "category")
        /\ audit' = NewAudit

py_category_click(b) ==
    /\ variant = "py" /\ Ready
    /\ b \in input \/ Cardinality(input) < MaxPressed
    /\ input' = input \cup {b}
    /\ py_handle_category_selection(input')
    /\ UNCHANGED <<variant, other, source, alive, loaded, now, all_questions, progress, store>>

\* handle_answer_submission
py_handle_answer_submission(user_answer) ==
    IF ~InRange
    THEN \* questions[idx] raises IndexError: the session is closed
         /\ alive' = FALSE
         /\ UNCHANGED quiz
    ELSE IF user_answer = NoAnswer
    THEN \* input[f"answer_{idx}"]() has no value: the effect is cancelled
         UNCHANGED <<alive, quiz>>
    ELSE /\ quiz' = [quiz EXCEPT
                 !.time_spent = Append(@, now - quiz.question_start),
                 !.score = IF IsCorrect(CurrentQuestion, user_answer) THEN @ + 1 ELSE @,
                 !.current_index = @ + 1,
                 !.question_start = now]
         /\ UNCHANGED alive

\* A click on "Submit Answer" with user_answer selected.
py_submit_answer(user_answer) ==
    /\ variant = "py" /\ Ready
    /\ py_handle_answer_submission(user_answer)
    /\ audit' = AuditSubmission(user_answer)
    /\ UNCHANGED <<variant, other, source, loaded, now, all_questions, progress, store, input>>

\* Mutant of py_show_results: the date of the entry is not appended.
py_show_results_no_date ==
    LET new_progress == [progress EXCEPT
            !.attempts = Append(@, Len(@) + 1),
            !.scores = Append(@, Ratio(quiz.score, NumQuestions)),
            !.time_spent = Append(@, now - quiz.start_time)]
    IN  /\ progress' = new_progress
        /\ py_save_progress(new_progress)

\* show_results, called by quiz_interface each time it renders a finished quiz
py_show_results ==
    LET new_progress == [progress EXCEPT
            !.attempts = Append(@, Len(@) + 1),
            !.scores = Append(@, Ratio(quiz.score, NumQuestions)),
            !.time_spent = Append(@, now - quiz.start_time),
            !.dates = Append(@, Date(now))]
    IN  /\ progress' = new_progress
        /\ py_save_progress(new_progress)

\* quiz_interface (render.ui)
py_quiz_interface ==
    /\ variant = "py" /\ Ready
    /\ NumQuestions > 0
    /\ quiz.current_index >= NumQuestions
    /\ Len(progress.attempts) < MaxAttempts
    /\ py_show_results
    /\ audit' = [audit EXCEPT !.entries = @ + 1,
                              !.written = IF store' = py_json_dump(progress') THEN @ + 1 ELSE @]
    /\ UNCHANGED <<variant, other, source, alive, loaded, now, all_questions, quiz, input>>

\* handle_registration
py_handle_registration ==
    /\ variant = "py" /\ Ready
    /\ progress.registration_clicks < MaxClicks
    /\ LET new_progress == [progress EXCEPT
               !.registration_clicks = @ + 1,
               !.last_registration_click = Some(now)]
       IN  /\ progress' = new_progress
           /\ py_save_progress(new_progress)
    /\ UNCHANGED <<variant, other, source, alive, loaded, now, all_questions, quiz, input, audit>>

\* ------------------------------------------------------------ src/app.py
\* Mutant of r_load_progress: a file that cannot be read closes the session.
r_load_progress_raises ==
    /\ variant = "r" /\ alive /\ ~loaded
    /\ loaded' = TRUE
    /\ alive' = (store.kind = "json")
    /\ progress' = IF store.kind = "json" THEN r_fromJSON(store) ELSE progress
    /\ UNCHANGED <<variant, other, source, now, all_questions, quiz, store, input, audit>>

\* observe({ if (file.exists(...)) rv$progress <- fromJSON(...) }): runs once
r_load_progress ==
    /\ variant = "r" /\ alive /\ ~loaded
    /\ loaded' = TRUE
    /\ progress' = IF store.kind = "json" THEN r_fromJSON(store) ELSE progress
    /\ UNCHANGED <<variant, other, source, alive, now, all_questions, quiz, store, input, audit>>

\* Mutant of r_save_progress: the ledger is replaced by the new entry.
r_save_progress_replace(p, score, total_questions, total_time) ==
    LET replaced == [p EXCEPT
            !.attempts = <<Len(@) + 1>>,
            !.scores = <<Ratio(score, total_questions)>>,
            !.time_spent = <<total_time>>,
            !.dates = <<Date(now)>>]
    IN  /\ progress' = replaced
        /\ store' \in {r_write_json(replaced), store, Corrupt}

\* save_progress(score, total_questions, total_time): appends an entry, then writes
r_save_progress(p, score, total_questions, total_time) ==
    LET appended == [p EXCEPT
            !.attempts = Append(@, Len(@) + 1),
            !.scores = Append(@, Ratio(score, total_questions)),
            !.time_spent = Append(@, total_time),
            !.dates = Append(@, Date(now))]
    IN  /\ progress' = appended
        /\ store' \in {r_write_json(appended), store, Corrupt}

\* track_registration_click
r_track_registration_click ==
    r_save_progress([progress EXCEPT !.registration_clicks = @ + 1,
                                     !.last_registration_click = Some(now)], 0, 1, 0)

\* observeEvent(input$register_btn, ...)
r_register_btn ==
    /\ variant = "r" /\ Ready
    /\ progress.registration_clicks < MaxClicks
    /\ Len(progress.attempts) < MaxAttempts
    /\ r_track_registration_click
    /\ UNCHANGED <<variant, other, source, alive, loaded, now, all_questions, quiz, input, audit>>

\* Mutant of r_start: the score of the previous exam is kept.
r_start_keeps_score(qs, label, type) ==
    [quiz EXCEPT !.current_questions = qs, !.current_index = 1, !.mode = "question",
                 !.selected_category = Some(label), !.question_start = now,
                 !.submitted = FALSE, !.time_spent = <<>>,
                 !.test_type = Some(type)]

\* The assignments every start_* function and the category observer make.
r_start(qs, label, type) ==
    [quiz EXCEPT !.current_questions = qs, !.current_index = 1, !.mode = "question",
                 !.selected_category = Some(label), !.question_start = now,
                 !.submitted = FALSE, !.score = 0, !.time_spent = <<>>,
                 !.test_type = Some(type)]

\* paste(toupper(substring(d, 1, 1)), substring(d, 2), "Exam")
r_paste_label(d) ==
    CASE d = "easy" -> <<"E", "asy", "Exam">> [] d = "medium" -> <<"M", "edium", "Exam">>
      [] d = "hard" -> <<"H", "ard", "Exam">>

r_start_random_mix ==
    /\ variant = "r" /\ Ready
    /\ \E qs \in RandomMixExams :
        IF Len(qs) = 0
        THEN UNCHANGED <<quiz, audit>>
        ELSE /\ quiz' = r_start(qs, <<"Random Mix">>, "random_mix")
             /\ audit' = NewAudit
    /\ UNCHANGED <<variant, other, source, alive, loaded, now, all_questions, progress, store, input>>

r_start_quick_quiz ==
    /\ variant = "r" /\ Ready
    /\ IF Len(AllOf(1)) < QUICK_SIZE
       THEN UNCHANGED <<quiz, audit>>
       ELSE \E qs \in QuickExams :
                /\ quiz' = r_start(qs, <<"Quick Quiz">>, "quick_quiz")
                /\ audit' = NewAudit
    /\ UNCHANGED <<variant, other, source, alive, loaded, now, all_questions, progress, store, input>>

r_start_super_hard_exam ==
    /\ variant = "r" /\ Ready
    /\ \E qs \in SuperHardExams :
        IF Len(qs) = 0
        THEN UNCHANGED <<quiz, audit>>
        ELSE /\ quiz' = r_start(qs, <<"Super Hard Exam">>, "super_hard")
             /\ audit' = NewAudit
    /\ UNCHANGED <<variant, other, source, alive, loaded, now, all_questions, progress, store, input>>

r_start_balanced_exam(exam_number) ==
    /\ variant = "r" /\ Ready
    /\ \E qs \in BalancedExams :
        IF Len(qs) < BALANCED_MIN
        THEN UNCHANGED <<quiz, audit>>
        ELSE /\ quiz' = [r_start(qs, <<"Balanced Exam", exam_number>>, "balanced_exam")
                            EXCEPT !.exam_number = Some(exam_number)]
             /\ audit' = NewAudit
    /\ UNCHANGED <<variant, other, source, alive, loaded, now, all_questions, progress, store, input>>

r_start_practice_test(difficulty) ==
    /\ variant = "r" /\ Ready
    /\ \E qs \in PracticeTestExams(difficulty) :
        IF Len(qs) = 0
        THEN UNCHANGED <<quiz, audit>>
        ELSE /\ quiz' = r_start(qs, r_paste_label(difficulty), "practice_test")
             /\ audit' = NewAudit
    /\ UNCHANGED <<variant, other, source, alive, loaded, now, all_questions, progress, store, input>>

\* observeEvent(input[[paste0("category_", ...)]], ...)
r_category(category) ==
    /\ variant = "r" /\ Ready
    /\ quiz' = r_start(CategoryQuestions(category), <<category>>, "category")
    /\ audit' = NewAudit
    /\ UNCHANGED <<variant, other, source, alive, loaded, now, all_questions, progress, store, input>>

\* process_answer(question, user_answer)
r_process_answer(question, user_answer) ==
    quiz' = [quiz EXCEPT
        !.time_spent = Append(@, now - quiz.question_start),
        !.submitted = TRUE,
        !.score = IF IsCorrect(question, user_answer) THEN @ + 1 ELSE @]

\* observeEvent(input$submit_answer, ...)
r_observe_submit_answer(user_answer) ==
    IF user_answer = NoAnswer
    THEN \* req(input$user_answer) stops the observer
         UNCHANGED <<alive, quiz>>
    ELSE IF ~InRange
    THEN \* current_questions[[current_index]]: subscript out of bounds
         /\ alive' = FALSE
         /\ UNCHANGED quiz
    ELSE /\ r_process_answer(CurrentQuestion, user_answer)
         /\ UNCHANGED alive

\* A click on "Submit Answer" with user_answer selected.
r_submit_answer(user_answer) ==
    /\ variant = "r" /\ Ready
    /\ Len(quiz.time_spent) < MaxSubmits \/ Len(quiz.time_spent) < NumQuestions
    /\ r_observe_submit_answer(user_answer)
    /\ audit' = AuditSubmission(user_answer)
    /\ UNCHANGED <<variant, other, source, loaded, now, all_questions, progress, store, input>>

\* observeEvent(input$next_question, ...)
r_next_question ==
    /\ variant = "r" /\ Ready
    /\ quiz.current_index < MaxIndex
    /\ quiz' = [quiz EXCEPT !.current_index = @ + 1, !.submitted = FALSE,
                            !.question_start = now]
    /\ UNCHANGED <<variant, other, source, alive, loaded, now, all_questions, progress, store, input, audit>>

\* The observers that only switch the screen.
Screens == {"main_menu"}

r_set_mode(mode) ==
    /\ variant = "r" /\ Ready
    /\ quiz' = [quiz EXCEPT !.mode = mode]
    /\ UNCHANGED <<variant, other, source, alive, loaded, now, all_questions, progress, store, input, audit>>

\* Mutant of r_show_results_ui: a failed write takes the entry back.
r_show_results_ui_rollback ==
    \/ r_save_progress(progress, quiz.score, NumQuestions, now - quiz.start_time)
         /\ store'.kind = "json" /\ store' # store
    \/ /\ progress' = progress
       /\ store' \in {store, Corrupt}

\* show_results_ui
r_show_results_ui ==
    r_save_progress(progress, quiz.score, NumQuestions, now - quiz.start_time)

\* question_ui, rendered by output$main_ui while mode is "question"
r_question_ui ==
    /\ variant = "r" /\ Ready
    /\ quiz.mode = "question"
    /\ IF NumQuestions = 0
       THEN /\ quiz' = [quiz EXCEPT !.mode = "main_menu"]
            /\ UNCHANGED <<progress, store, audit>>
       ELSE /\ quiz.current_index > NumQuestions
            /\ Len(progress.attempts) < MaxAttempts
            /\ r_show_results_ui
            /\ audit' = [audit EXCEPT !.entries = @ + 1,
                                      !.written = IF store' = r_write_json(progress') THEN @ + 1 ELSE @]
            /\ UNCHANGED quiz
    /\ UNCHANGED <<variant, other, source, alive, loaded, now, all_questions, input>>

\* ------------------------------------------------------------------ next
Next ==
    \/ py_load_progress_data
    \/ \E b \in DifficultyButtons : py_difficulty_click(b)
    \/ \E b \in CategoryButtons : py_category_click(b)
    \/ \E a \in Answers : py_submit_answer(a)
    \/ py_quiz_interface
    \/ py_handle_registration
    \/ r_load_progress
    \/ r_register_btn
    \/ r_start_random_mix
    \/ r_start_quick_quiz
    \/ r_start_super_hard_exam
    \/ \E i \in BalancedNumbers : r_start_balanced_exam(i)
    \/ \E d \in Range(DIFFICULTIES) : r_start_practice_test(d)
    \/ \E c \in Range(CATEGORIES) : r_category(c)
    \/ \E a \in Answers : r_submit_answer(a)
    \/ r_next_question
    \/ \E m \in Screens : r_set_mode(m)
    \/ r_question_ui

Spec == Init /\ [][Next]_vars

\* The same handlers with the clock advancing between them.
InitTimed ==
    /\ Init
    /\ store = Missing
    /\ all_questions = IndexOf(Stacked(1))

NextTimed == Next \/ Tick

SpecTimed == InitTimed /\ [][NextTimed]_vars

\* One exam from start to results: the load, the exam of the first category, its
\* submissions and advances, and the results screen.
NextQuiz ==
    \/ py_load_progress_data
    \/ py_category_click(Button("category", 1))
    \/ \E a \in Answers : py_submit_answer(a)
    \/ py_quiz_interface
    \/ r_load_progress
    \/ r_category(CATEGORIES[1])
    \/ \E a \in Answers : r_submit_answer(a)
    \/ r_next_question
    \/ r_question_ui

\* An exam over a question file with three questions in one bucket.
InitThree ==
    /\ variant \in {"py", "r"}
    /\ alive = TRUE
    /\ loaded = FALSE
    /\ now = 0
    /\ all_questions = IndexOf(Stacked(3))
    /\ quiz = InitialQuiz(variant)
    /\ progress = EmptyProgress
    /\ store = Missing
    /\ input = {}
    /\ audit = [started |-> None, correct |-> 0, accepted |-> 0, entries |-> 0, written |-> 0]
    /\ other = NewSession(variant)
    /\ source = Unread

SpecThree == InitThree /\ [][NextQuiz]_vars

\* Two user sessions of one process.  server() runs once per session, so each has
\* its own quiz and progress; the question file and the progress file are shared.
\* Handlers of the two sessions interleave, each running to completion:
\* the next handler to run belongs to the other session.
switch_session ==
    /\ other' = [alive |-> alive, loaded |-> loaded, quiz |-> quiz, progress |-> progress,
                 input |-> input, audit |-> audit]
    /\ alive' = other.alive
    /\ loaded' = other.loaded
    /\ quiz' = other.quiz
    /\ progress' = other.progress
    /\ input' = other.input
    /\ audit' = other.audit
    /\ UNCHANGED <<variant, source, now, all_questions, store>>

\* The composition of exams by difficulty, over question files with deep and wide
\* buckets: the load and the starts of the difficulty screen.
InitCompose ==
    /\ variant \in {"py", "r"}
    /\ alive = TRUE
    /\ loaded = FALSE
    /\ now = 0
    /\ all_questions \in ComposeRepositories
    /\ quiz = InitialQuiz(variant)
    /\ progress = EmptyProgress
    /\ store = Missing
    /\ input = {}
    /\ audit = [started |-> None, correct |-> 0, accepted |-> 0, entries |-> 0, written |-> 0]
    /\ other = NewSession(variant)
    /\ source = Unread

ComposeButtons ==
    {Button("balanced", 1)}
    \cup {Button(b, 0) : b \in {"easy_exam", "medium_exam", "hard_exam", "super_hard"}}

NextCompose ==
    \/ py_load_progress_data
    \/ \E b \in ComposeButtons : py_difficulty_click(b)
    \/ r_load_progress
    \/ r_start_super_hard_exam
    \/ r_start_balanced_exam(1)
    \/ \E d \in Range(DIFFICULTIES) : r_start_practice_test(d)

SpecCompose == InitCompose /\ [][NextCompose]_vars

InitSessions ==
    /\ Init
    /\ store = Missing
    /\ all_questions = IndexOf(Stacked(1))

\* Each session loads the ledger, takes the exam of the first category and sees
\* its results.
NextSessions == NextQuiz \/ switch_session

SpecSessions == InitSessions /\ [][NextSessions]_vars

\* The composition of exams from the whole pool and from one category, over
\* question files with 0, 3, 8 and 25 questions.
InitMix ==
    /\ variant \in {"py", "r"}
    /\ alive = TRUE
    /\ loaded = FALSE
    /\ now = 0
    /\ all_questions \in MixRepositories
    /\ quiz = InitialQuiz(variant)
    /\ progress = EmptyProgress
    /\ store \in InitialStores
    /\ input = {}
    /\ audit = [started |-> None, correct |-> 0, accepted |-> 0, entries |-> 0, written |-> 0]
    /\ other = NewSession(variant)
    /\ source = Unread

MixButtons == {Button("quick_quiz", 0), Button("random_mix", 0)}

NextMix ==
    \/ py_load_progress_data
    \/ \E b \in MixButtons : py_difficulty_click(b)
    \/ py_category_click(Button("category", 1))
    \/ r_load_progress
    \/ r_start_quick_quiz
    \/ r_start_random_mix
    \/ r_category(CATEGORIES[1])

SpecMix == InitMix /\ [][NextMix]_vars

\* A click on a button of the difficulty screen after other buttons were pressed.
py_difficulty_press(b) ==
    /\ variant = "py" /\ Ready
    /\ b \in input \/ Cardinality(input) < MaxSelections
    /\ input' = input \cup {b}
    /\ py_handle_difficulty_selection(input')
    /\ UNCHANGED <<variant, other, source, alive, loaded, now, all_questions, progress, store>>

\* A click on a category button after other buttons were pressed.
py_category_press(b) ==
    /\ variant = "py" /\ Ready
    /\ b \in input \/ Cardinality(input) < MaxSelections
    /\ input' = input \cup {b}
    /\ py_handle_category_selection(input')
    /\ UNCHANGED <<variant, other, source, alive, loaded, now, all_questions, progress, store>>

\* The observer of the R button that corresponds to the Python button b.
r_press(b) ==
    CASE b[1] = "balanced" -> r_start_balanced_exam(b[2])
      [] b[1] = "easy_exam" -> r_start_practice_test("easy")
      [] b[1] = "medium_exam" -> r_start_practice_test("medium")
      [] b[1] = "hard_exam" -> r_start_practice_test("hard")
      [] b[1] = "super_hard" -> r_start_super_hard_exam
      [] b[1] = "quick_quiz" -> r_start_quick_quiz
      [] b[1] = "random_mix" -> r_start_random_mix
      [] b[1] = "category" -> r_category(CATEGORIES[b[2]])

\* Sessions in which the user presses one exam button after another, over a
\* question file with 3 questions and one with 8.
InitButtons ==
    /\ variant \in {"py", "r"}
    /\ alive = TRUE
    /\ loaded = FALSE
    /\ now = 0
    /\ all_questions \in {IndexOf(Stacked(3)), IndexOf(DeepFile)}
    /\ quiz = InitialQuiz(variant)
    /\ progress = EmptyProgress
    /\ store = Missing
    /\ input = {}
    /\ audit = [started |-> None, correct |-> 0, accepted |-> 0, entries |-> 0, written |-> 0]
    /\ other = NewSession(variant)
    /\ source = Unread

PressedDifficulty == {Button("balanced", 1), Button("easy_exam", 0), Button("quick_quiz", 0)}

PressedCategory == {Button("category", 1), Button("category", 2)}

NextButtons ==
    \/ py_load_progress_data
    \/ \E b \in PressedDifficulty : py_difficulty_press(b)
    \/ \E b \in PressedCategory : py_category_press(b)
    \/ \E a \in Answers : py_submit_answer(a)
    \/ r_load_progress
    \/ \E b \in PressedDifficulty \cup PressedCategory : r_press(b)
    \/ \E a \in Answers : r_submit_answer(a)
    \/ r_next_question

SpecButtons == InitButtons /\ [][NextButtons]_vars

\* Sessions over a question file with no question and one with 3 questions, in
\* which exams are asked for that the file cannot fill.
InitRefuse ==
    /\ variant \in {"py", "r"}
    /\ alive = TRUE
    /\ loaded = FALSE
    /\ now = 0
    /\ all_questions \in {IndexOf(Stacked(0)), IndexOf(Stacked(3))}
    /\ quiz = InitialQuiz(variant)
    /\ progress = EmptyProgress
    /\ store = Missing
    /\ input = {}
    /\ audit = [started |-> None, correct |-> 0, accepted |-> 0, entries |-> 0, written |-> 0]
    /\ other = NewSession(variant)
    /\ source = Unread

RefusedDifficulty ==
    {Button("balanced", 1), Button("hard_exam", 0), Button("super_hard", 0),
     Button("quick_quiz", 0), Button("random_mix", 0)}

NextRefuse ==
    \/ py_load_progress_data
    \/ \E b \in RefusedDifficulty : py_difficulty_press(b)
    \/ py_category_press(Button("category", 1))
    \/ \E a \in Answers : py_submit_answer(a)
    \/ r_load_progress
    \/ \E b \in RefusedDifficulty \cup {Button("category", 1)} : r_press(b)
    \/ \E a \in Answers : r_submit_answer(a)
    \/ r_next_question

SpecRefuse == InitRefuse /\ [][NextRefuse]_vars

\* server(): the repository index is built from the question file.
load_questions ==
    /\ all_questions = Unloaded
    /\ all_questions' = IF variant = "py" THEN py_load_questions(source)
                                         ELSE r_load_questions(source)
    /\ UNCHANGED <<variant, other, source, alive, loaded, now, quiz, progress, store, input, audit>>

\* A session from the start of server(): the load of the question file, the load
\* of the ledger, and starts of exams.
InitLoad ==
    /\ variant \in {"py", "r"}
    /\ alive = TRUE
    /\ loaded = FALSE
    /\ now = 0
    /\ all_questions = Unloaded
    /\ quiz = InitialQuiz(variant)
    /\ progress = EmptyProgress
    /\ store = Missing
    /\ input = {}
    /\ audit = [started |-> None, correct |-> 0, accepted |-> 0, entries |-> 0, written |-> 0]
    /\ other = NewSession(variant)
    /\ source \in QuestionFiles

NextLoad ==
    \/ load_questions
    \/ py_load_progress_data
    \/ py_difficulty_click(Button("random_mix", 0))
    \/ py_category_click(Button("category", 3))
    \/ \E a \in Answers : py_submit_answer(a)
    \/ r_load_progress
    \/ r_start_random_mix
    \/ r_category(CATEGORIES[3])
    \/ \E a \in Answers : r_submit_answer(a)
    \/ r_next_question

SpecLoad == InitLoad /\ [][NextLoad]_vars

\* ---------------------------------------------------------------- claims
Last(s) == s[Len(s)]

\* The step is a run of the results screen that wrote a ledger entry.
ResultsWritten == audit'.entries = audit.entries + 1

\* The session was driven to Completed by one accepted submission per question.
AnsweredThrough == Completed /\ audit.accepted = NumQuestions

SubmitEvent(a) == py_submit_answer(a) \/ r_submit_answer(a)

StartEvent ==
    \/ \E b \in DifficultyButtons : py_difficulty_click(b)
    \/ \E b \in CategoryButtons : py_category_click(b)
    \/ r_start_random_mix
    \/ r_start_quick_quiz
    \/ r_start_super_hard_exam
    \/ \E i \in BalancedNumbers : r_start_balanced_exam(i)
    \/ \E d \in Range(DIFFICULTIES) : r_start_practice_test(d)
    \/ \E c \in Range(CATEGORIES) : r_category(c)

\* A start that changed the session. An R start that changes the session leaves the
\* exam type of its strategy in test_type, so only the handler of that type is tried.
StartStep ==
    /\ quiz' # quiz
    /\ \/ \E b \in DifficultyButtons : py_difficulty_click(b)
       \/ \E b \in CategoryButtons : py_category_click(b)
       \/ quiz'.test_type = Some("random_mix") /\ r_start_random_mix
       \/ quiz'.test_type = Some("quick_quiz") /\ r_start_quick_quiz
       \/ quiz'.test_type = Some("super_hard") /\ r_start_super_hard_exam
       \/ quiz'.test_type = Some("balanced_exam") /\ \E i \in BalancedNumbers : r_start_balanced_exam(i)
       \/ quiz'.test_type = Some("practice_test") /\ \E d \in Range(DIFFICULTIES) : r_start_practice_test(d)
       \/ quiz'.test_type = Some("category") /\ \E c \in Range(CATEGORIES) : r_category(c)

\* C1: the score ratio written to the ledger when a session is finished is the
\* number of submissions whose choice was the question's correct answer, over the
\* number of questions of the session.
C1_ScoreRatio ==
    [][ResultsWritten => Last(progress'.scores) = Ratio(audit.correct, NumQuestions)]_vars

\* C1 witness: a session of two questions, one answered correctly and one not,
\* whose result is in the ledger.
C1_Witness ==
    /\ audit.entries = 1 /\ audit.accepted = 2 /\ audit.correct = 1 /\ NumQuestions = 2
    /\ Last(progress.scores) = Ratio(1, 2)

\* C2: no session is started with an empty question list: the quiz is never in
\* mode "question" with zero questions.
C2_NoEmptySession == quiz.mode = "question" => NumQuestions > 0

\* C3: a submit event that arrives while the current question is already
\* submitted changes neither the score nor the timing sequence.
C3_SubmitOnlyWhenUnsubmitted ==
    [][\A a \in Answers :
          (variant = "r" /\ quiz.submitted /\ r_submit_answer(a))
              => (quiz'.score = quiz.score /\ quiz'.time_spent = quiz.time_spent)]_vars

\* C4: an advance event that arrives while the current question is unsubmitted
\* is rejected with no state change.
C4_AdvanceOnlyWhenSubmitted ==
    [][(variant = "r" /\ InRange /\ ~quiz.submitted /\ r_next_question) => UNCHANGED quiz]_vars

\* C5: once the session is Completed, a further submit or advance event leaves
\* index, score and timing sequence unchanged, and the index stays at the question count.
C5_CompletedTerminal ==
    [][(AnsweredThrough /\ ((\E a \in Answers : SubmitEvent(a)) \/ r_next_question))
          => /\ quiz'.current_index = quiz.current_index
             /\ quiz'.score = quiz.score
             /\ quiz'.time_spent = quiz.time_spent
             /\ quiz'.current_index - First <= NumQuestions]_vars

\* C6: a submission whose choice is not one of the current question's options
\* (or with no option selected) leaves index, score, timing sequence and submitted
\* flag unchanged.
C6_InvalidChoiceRejected ==
    [][\A a \in Answers :
          (InRange /\ a \notin Range(CurrentQuestion.options) /\ SubmitEvent(a))
              => /\ quiz'.current_index = quiz.current_index
                 /\ quiz'.score = quiz.score
                 /\ quiz'.time_spent = quiz.time_spent
                 /\ (variant = "r" => quiz'.submitted = quiz.submitted)]_vars

\* C7: every successful start of an exam, from any prior state, sets the index to
\* the first question, the score to 0, the timing sequence to empty and the
\* submitted flag to false.
C7_StartResets ==
    [][StartStep
          => /\ quiz'.current_index = First
             /\ quiz'.score = 0
             /\ quiz'.time_spent = <<>>
             /\ (variant = "r" => quiz'.submitted = FALSE)]_vars

\* C7 witness: an exam just started after an earlier session of this process was
\* finished and its result written to the ledger.
C7_Witness ==
    /\ Len(progress.attempts) = 2 /\ progress.registration_clicks = 0
    /\ audit.started # None /\ audit.entries = 0
    /\ NumQuestions > 0 /\ quiz.current_index = First /\ quiz.score = 0
    /\ quiz.time_spent = <<>>

\* C8: the total duration stored in a ledger entry is the time of completion
\* minus the time at which that session was started.
C8_DurationFromStart ==
    [][(AnsweredThrough /\ ResultsWritten)
          => Last(progress'.time_spent) = now - audit.started[1]]_vars

\* C9: between reaching Completed and the next start the ledger grows by exactly
\* one entry, however often the results screen is rendered.
C9_OneEntryPerCompletion == AnsweredThrough => audit.entries <= 1

\* C10: a registration click adds 1 to registration_clicks, stamps
\* last_registration_click, and leaves attempts, scores, time_spent, dates and the
\* quiz session unchanged.
C10_RegistrationIndependent ==
    [][(py_handle_registration \/ r_register_btn)
          => /\ progress'.registration_clicks = progress.registration_clicks + 1
             /\ progress'.last_registration_click = Some(now)
             /\ progress'.attempts = progress.attempts
             /\ progress'.scores = progress.scores
             /\ progress'.time_spent = progress.time_spent
             /\ progress'.dates = progress.dates
             /\ UNCHANGED quiz]_vars

\* The four parallel sequences of a ledger have one length.
SameLengths(p) ==
    /\ Len(p.scores) = Len(p.attempts)
    /\ Len(p.time_spent) = Len(p.attempts)
    /\ Len(p.dates) = Len(p.attempts)

IsPrefix(s, t) == Len(s) <= Len(t) /\ SubSeq(t, 1, Len(s)) = s

\* The write of the ledger to the file failed: the file is as it was, or cut short.
WriteFailed == store' \in {store, Corrupt}

\* C11: every entry added to the ledger gets the number (previous count + 1) and is
\* the one entry of a session that has just been completed, so attempts is 1..n with
\* n the number of completed sessions.
C11_AttemptNumbers ==
    [][(loaded /\ progress'.attempts # progress.attempts)
          => /\ progress'.attempts = Append(progress.attempts, Len(progress.attempts) + 1)
             /\ ResultsWritten
             /\ audit.entries = 0]_vars

\* C12: in memory and in the progress file, attempts, scores, time_spent and dates
\* have the same length, and a step that adds an entry adds one element at the same
\* position of each of the four.
C12_ParallelSequences ==
    /\ [](SameLengths(progress) /\ (store.kind = "json" => SameLengths(store.text)))
    /\ [][(loaded /\ progress'.attempts # progress.attempts)
            => /\ Len(progress'.attempts) = Len(progress.attempts) + 1
               /\ IsPrefix(progress.attempts, progress'.attempts)
               /\ IsPrefix(progress.scores, progress'.scores)
               /\ IsPrefix(progress.time_spent, progress'.time_spent)
               /\ IsPrefix(progress.dates, progress'.dates)]_vars

\* C12 witness: two entries in memory and in the file, the second written by the
\* results screen of this session.
C12_Witness ==
    /\ audit.entries = 1 /\ Len(progress.attempts) = 2 /\ Len(progress.dates) = 2
    /\ store.kind = "json" /\ Len(store.text.attempts) = 2 /\ Len(store.text.dates) = 2

\* C13: after the startup load every step leaves the entries the ledger already had
\* as a prefix of the new ledger.
C13_AppendOnly ==
    [][loaded => /\ IsPrefix(progress.attempts, progress'.attempts)
                 /\ IsPrefix(progress.scores, progress'.scores)
                 /\ IsPrefix(progress.time_spent, progress'.time_spent)
                 /\ IsPrefix(progress.dates, progress'.dates)]_vars

\* C13 witness: the entry loaded from the file is still first after a session of
\* this process appended its own.
C13_Witness ==
    /\ loaded /\ audit.entries = 1 /\ Len(progress.attempts) = 2
    /\ progress.scores[1] = StoredLedger.scores[1]
    /\ progress.time_spent[1] = StoredLedger.time_spent[1]
    /\ progress.registration_clicks = 0

\* C14: when the write of the ledger fails, the entry just appended stays in memory,
\* the session goes on, and the file does not hold the entry.
C14_FailedPersist ==
    [][(ResultsWritten /\ WriteFailed)
          => /\ Len(progress'.attempts) = Len(progress.attempts) + 1
             /\ alive' = alive
             /\ store'.kind = "json" => Len(store'.text.attempts) <= Len(progress.attempts)]_vars

\* C14 witness: after a failed write the results entry is in memory and not in the file.
C14_Witness ==
    /\ alive /\ audit.entries = 1 /\ Len(progress.attempts) = 1
    /\ store \in {Missing, Corrupt}

\* C15: the startup load of a missing or unreadable progress file leaves the empty
\* ledger in memory and the session alive.
C15_LoadTolerant ==
    [][((py_load_progress_data \/ r_load_progress) /\ store.kind # "json")
          => (progress' = EmptyProgress /\ alive')]_vars

\* C15 witness: the load has run on an unreadable file and nothing else has happened.
C15_Witness ==
    /\ loaded /\ alive /\ store = Corrupt /\ progress = EmptyProgress
    /\ audit.started = None

\* The ledger a new session would read from the file f.
LedgerLoad(f) == IF variant = "py" THEN py_json_load(f) ELSE r_fromJSON(f)

\* Two ledgers hold the same entries and registration counters.
SameLedger(a, b) ==
    /\ a.attempts = b.attempts
    /\ Len(a.scores) = Len(b.scores)
    /\ \A i \in 1..Len(a.scores) : SameRatio(a.scores[i], b.scores[i])
    /\ a.time_spent = b.time_spent
    /\ a.dates = b.dates
    /\ a.registration_clicks = b.registration_clicks
    /\ a.last_registration_click = b.last_registration_click

\* The step wrote the ledger to the file.
Persisted == store' # store /\ store'.kind = "json"

\* C16: when the results of a session answered through are appended and written,
\* loading the file yields the entries and registration counters of the ledger in
\* memory.
C16_RoundTrip ==
    [][(AnsweredThrough /\ ResultsWritten /\ Persisted)
          => SameLedger(LedgerLoad(store'), progress')]_vars

Max(a, b) == IF a > b THEN a ELSE b

\* C17: with two sessions, each writing the whole file from its own ledger, the file
\* never holds more entries than the longer of the two ledgers in memory, so the
\* entries of both sessions are never in the file together unless one session loaded
\* the other's.
C17_WholeFileRewrite ==
    store.kind = "json"
        => Len(store.text.attempts) <= Max(Len(progress.attempts), Len(other.progress.attempts))

\* C17 witness: both sessions finished a quiz and both wrote their entry to the file
\* with success; the file holds the one entry of the session that wrote last.
C17_Witness ==
    /\ audit.entries = 1 /\ audit.written = 1
    /\ other.audit.entries = 1 /\ other.audit.written = 1
    /\ Len(progress.attempts) = 1 /\ Len(other.progress.attempts) = 1
    /\ store.kind = "json" /\ Len(store.text.attempts) = 1

\* ------------------------------------------------------ composed exams
\* The questions of the list qs that come from bucket (c, d).
Count(qs, c, d) ==
    Cardinality({i \in 1..Len(qs) : qs[i].category = c /\ qs[i].difficulty = d})

CountAt(qs, d) == Cardinality({i \in 1..Len(qs) : qs[i].difficulty = d})

\* Every element of qs is a question of the repository, none twice.
DrawnFromPools(qs) ==
    /\ \A i \in 1..Len(qs) : qs[i] \in Range(Pool(qs[i].category, qs[i].difficulty))
    /\ \A i, j \in 1..Len(qs) : i # j => qs[i] # qs[j]

RECURSIVE TwoPerCategory(_, _)
\* The sum over the first i categories of min(2, size of the pool at d).
TwoPerCategory(i, d) ==
    IF i = 0 THEN 0
    ELSE Min(2, Len(Pool(CATEGORIES[i], d))) + TwoPerCategory(i - 1, d)

\* The difficulty of the practice test in progress, read from its title.
SessionDifficulty ==
    CHOOSE d \in Range(DIFFICULTIES) :
        quiz.selected_category =
            Some(IF variant = "py" THEN <<Capitalize(d), "Exam">> ELSE r_paste_label(d))

ByDifficulty(qs, d) ==
    /\ DrawnFromPools(qs)
    /\ \A i \in 1..Len(qs) : qs[i].difficulty = d
    /\ \A c \in Range(CATEGORIES) : Count(qs, c, d) = Min(2, Len(Pool(c, d)))
    /\ Len(qs) = 0 <=> \A c \in Range(CATEGORIES) : Pool(c, d) = <<>>

\* C18: an exam composed by difficulty d holds from each category min(2, size of its
\* pool at d) questions, all of difficulty d, and is empty exactly when no category
\* has a question at d; a practice test in progress is such an exam and not empty.
C18_ByDifficulty ==
    /\ quiz.mode = "main_menu"
           => \A d \in Range(DIFFICULTIES) : \A qs \in PracticeTestExams(d) : ByDifficulty(qs, d)
    /\ quiz.test_type = Some("practice_test")
           => /\ NumQuestions > 0
              /\ ByDifficulty(quiz.current_questions, SessionDifficulty)

\* C18 witness: a practice test of three questions, two of them from a category
\* that has three questions at the difficulty.
C18_Witness ==
    /\ quiz.test_type = Some("practice_test") /\ NumQuestions = 3
    /\ \E c \in Range(CATEGORIES) :
           /\ Len(Pool(c, SessionDifficulty)) = 3
           /\ Count(quiz.current_questions, c, SessionDifficulty) = 2

Balanced(qs) ==
    /\ DrawnFromPools(qs)
    /\ \A d \in Range(DIFFICULTIES) :
           /\ CountAt(qs, d) = Min(10, TwoPerCategory(Len(CATEGORIES), d))
           /\ \A c \in Range(CATEGORIES) : Count(qs, c, d) <= 2

\* C19: a balanced composition holds per difficulty min(10, two-per-category pool)
\* questions, at most 2 of one category; a balanced exam in progress is such a
\* composition of 15 to 30 questions.
C19_Balanced ==
    /\ quiz.mode = "main_menu" => \A qs \in BalancedExams : Balanced(qs)
    /\ quiz.test_type = Some("balanced_exam")
           => /\ NumQuestions >= 15 /\ NumQuestions <= 30
              /\ Balanced(quiz.current_questions)

\* C19 witness: a balanced exam of 15 questions, 10 of them easy out of a
\* two-per-category pool of 11.
C19_Witness ==
    /\ quiz.test_type = Some("balanced_exam") /\ NumQuestions = 15
    /\ TwoPerCategory(Len(CATEGORIES), "easy") = 11
    /\ CountAt(quiz.current_questions, "easy") = 10

SuperHard(qs) ==
    /\ DrawnFromPools(qs)
    /\ \A i \in 1..Len(qs) : qs[i].difficulty = "hard"
    /\ \A c \in Range(CATEGORIES) : Count(qs, c, "hard") = Min(3, Len(Pool(c, "hard")))
    /\ Len(qs) = 0 <=> \A c \in Range(CATEGORIES) : Pool(c, "hard") = <<>>

\* C20: a super hard composition holds only hard questions, min(3, size of its hard
\* pool) of each category, and is empty exactly when there is no hard question; a
\* super hard exam in progress is such a composition and not empty.
C20_SuperHard ==
    /\ quiz.mode = "main_menu" => \A qs \in SuperHardExams : SuperHard(qs)
    /\ quiz.test_type = Some("super_hard")
           => /\ NumQuestions > 0
              /\ SuperHard(quiz.current_questions)

\* C20 witness: a super hard exam with three of the four hard questions of a category.
C20_Witness ==
    /\ quiz.test_type = Some("super_hard")
    /\ \E c \in Range(CATEGORIES) :
           /\ Len(Pool(c, "hard")) = 4
           /\ Count(quiz.current_questions, c, "hard") = 3

\* C21: a quick composition holds exactly 5 questions at pairwise distinct positions
\* of the whole pool; a quick quiz in progress is such a composition, and there is
\* none when the pool has fewer than 5 questions.
C21_Quick ==
    /\ (quiz.mode = "main_menu" /\ Len(AllOf(1)) >= 5)
           => \A qs \in QuickExams : Len(qs) = 5 /\ DrawnFromPools(qs)
    /\ quiz.test_type = Some("quick_quiz")
           => /\ Len(AllOf(1)) >= 5
              /\ NumQuestions = 5
              /\ DrawnFromPools(quiz.current_questions)

\* C21 witness: a quick quiz of 5 questions out of a pool of 8.
C21_Witness ==
    /\ quiz.test_type = Some("quick_quiz") /\ NumQuestions = 5
    /\ Len(AllOf(1)) = 8

\* C22: a random mix of a pool of p questions holds min(20, p) questions, each a
\* distinct question of the pool; a random mix in progress is such a composition
\* and not empty.
C22_RandomMix ==
    /\ quiz.mode = "main_menu"
           => \A qs \in RandomMixExams :
                  Len(qs) = Min(20, Len(AllOf(1))) /\ DrawnFromPools(qs)
    /\ quiz.test_type = Some("random_mix")
           => /\ NumQuestions > 0
              /\ NumQuestions = Min(20, Len(AllOf(1)))
              /\ DrawnFromPools(quiz.current_questions)

\* C22 witness: a random mix of 20 questions out of a pool of 25.
C22_Witness ==
    /\ quiz.test_type = Some("random_mix") /\ NumQuestions = 20
    /\ Len(AllOf(1)) = 25

\* C23: an exam by category holds only questions of the chosen category, from its
\* three difficulties, and never more than 20.
C23_CategoryCap ==
    quiz.test_type = Some("category")
        => /\ \A i \in 1..NumQuestions :
                  Some(<<quiz.current_questions[i].category>>) = quiz.selected_category
           /\ DrawnFromPools(quiz.current_questions)
           /\ NumQuestions <= 20


\* ------------------------------------------------------ repository index
\* The index ix has an entry for every category and, in it, for every difficulty.
IndexShape(ix) ==
    /\ DOMAIN ix = Range(CATEGORIES)
    /\ \A c \in Range(CATEGORIES) : DOMAIN ix[c] = Range(DIFFICULTIES)

\* The question file is missing or is not JSON.
SourceFails == source.kind # "json"

\* C24: once built, the index has an entry for each of the 10 categories and each
\* of the 3 difficulties; a load of a missing or unparsable question file gives 30
\* empty buckets and raises no error; no later step changes the index.
C24_IndexShape ==
    /\ [](all_questions # Unloaded => IndexShape(all_questions))
    /\ [][(load_questions /\ SourceFails) => (all_questions' = EmptyIndex /\ alive')]_vars
    /\ [][all_questions # Unloaded => all_questions' = all_questions]_vars

\* C24 witness: the question file is not JSON, the index was built with 30 empty
\* buckets, and an exam by category was started on it.
C24_Witness ==
    /\ source = Corrupt /\ all_questions = EmptyIndex /\ alive
    /\ quiz.test_type = Some("category")

\* The question file is a record whose "questions" are all question objects.
WellFormed ==
    /\ source.kind = "json" /\ source.text.json = "object"
    /\ "questions" \in DOMAIN source.text
    /\ \A i \in 1..Len(source.text.questions) : source.text.questions[i].json = "object"

\* The bucket named by the topic and the difficulty of the source question q.
BucketOf(q) ==
    LET topic == Strip(q.topic)
    IN  <<IF topic \in DOMAIN TOPIC_TO_CATEGORY THEN TOPIC_TO_CATEGORY[topic] ELSE topic,
          Lower(q.difficulty)>>

\* The number of places of bucket b of the index that hold the source question q.
Occurrences(q, b) ==
    Cardinality({k \in 1..Len(Pool(b[1], b[2])) : Pool(b[1], b[2])[k] = q})

\* C25: after the load of a well-formed question file, a question with a topic and
\* a difficulty is once in the bucket named by its trimmed, mapped topic and its
\* lower-cased difficulty, and in no other bucket; if that is not one of the 30
\* buckets it is in none.
C25_Placement ==
    (all_questions # Unloaded /\ WellFormed)
        => \A i \in 1..Len(source.text.questions) :
               LET q == source.text.questions[i]
               IN  ("topic" \in DOMAIN q /\ "difficulty" \in DOMAIN q)
                       => \A b \in Buckets : Occurrences(q, b) = IF b = BucketOf(q) THEN 1 ELSE 0


\* ------------------------------------------------------ session counters
\* C26: the timing sequence of the session has one entry per accepted submission,
\* and at Completed it has one entry per question.
C26_OneTimePerQuestion ==
    /\ Len(quiz.time_spent) = audit.accepted
    /\ Completed => Len(quiz.time_spent) = NumQuestions

\* C27: the score is between 0 and the number of accepted submissions, which is at
\* most the number of questions; every score ratio of the ledger is in [0, 1].
C27_ScoreBounds ==
    /\ 0 <= quiz.score /\ quiz.score <= audit.accepted
    /\ audit.accepted <= NumQuestions
    /\ \A i \in 1..Len(progress.scores) :
           0 <= progress.scores[i][1] /\ progress.scores[i][1] <= progress.scores[i][2]

\* C28: a session of N questions is Completed only after exactly N accepted
\* submissions.
C28_CompletedAfterAll == Completed => audit.accepted = NumQuestions


\* ------------------------------------------------------ exam buttons
\* The exam type and the title of the exam that button b stands for.
ButtonType(b) ==
    CASE b[1] = "balanced" -> "balanced_exam"
      [] b[1] \in {"easy_exam", "medium_exam", "hard_exam"} -> "practice_test"
      [] OTHER -> b[1]

ButtonDifficulty(b) ==
    CASE b[1] = "easy_exam" -> "easy" [] b[1] = "medium_exam" -> "medium" [] b[1] = "hard_exam" -> "hard"

ButtonLabel(b) ==
    CASE b[1] = "balanced" -> <<"Balanced Exam", b[2]>>
      [] b[1] \in {"easy_exam", "medium_exam", "hard_exam"}
            -> IF variant = "py" THEN <<Capitalize(ButtonDifficulty(b)), "Exam">>
                                 ELSE r_paste_label(ButtonDifficulty(b))
      [] b[1] = "super_hard" -> <<"Super Hard Exam">>
      [] b[1] = "quick_quiz" -> <<"Quick Quiz">>
      [] b[1] = "random_mix" -> <<"Random Mix">>
      [] b[1] = "category" -> <<CATEGORIES[b[2]]>>

\* The step is a press of button b.
Press(b) ==
    \/ b \in DifficultyButtons /\ py_difficulty_press(b)
    \/ b \in CategoryButtons /\ py_category_press(b)
    \/ r_press(b)

\* C29: when a press of an exam button changes the session, the session that
\* starts has the exam type and the title of that button.
C29_LastSelected ==
    [][\A b \in DifficultyButtons \cup CategoryButtons :
          (Press(b) /\ quiz' # quiz)
              => /\ quiz'.test_type = Some(ButtonType(b))
                 /\ quiz'.selected_category = Some(ButtonLabel(b))]_vars

\* The number of questions of a balanced composition.
BalancedSize ==
    Min(target_per_difficulty, TwoPerCategory(Len(CATEGORIES), "easy"))
    + Min(target_per_difficulty, TwoPerCategory(Len(CATEGORIES), "medium"))
    + Min(target_per_difficulty, TwoPerCategory(Len(CATEGORIES), "hard"))

\* The composition that difficulty button b asks for is refused.
Refused(b) ==
    CASE b[1] = "balanced" -> BalancedSize < 15
      [] b[1] \in {"easy_exam", "medium_exam", "hard_exam"}
            -> \A c \in Range(CATEGORIES) : Pool(c, ButtonDifficulty(b)) = <<>>
      [] b[1] = "super_hard" -> \A c \in Range(CATEGORIES) : Pool(c, "hard") = <<>>
      [] b[1] = "quick_quiz" -> Len(AllOf(1)) < 5
      [] b[1] = "random_mix" -> AllOf(1) = <<>>

\* The buttons of the difficulty screen in the order in which
\* handle_difficulty_selection looks at their counters.
Precedence ==
    <<Button("balanced", 1), Button("balanced", 2), Button("easy_exam", 0),
      Button("medium_exam", 0), Button("hard_exam", 0), Button("super_hard", 0),
      Button("quick_quiz", 0), Button("random_mix", 0)>>

\* The button whose composition a run of handle_difficulty_selection asks for.
Served(inp) ==
    Precedence[CHOOSE i \in 1..Len(Precedence) :
                   /\ Precedence[i] \in inp
                   /\ \A j \in 1..(i - 1) : Precedence[j] \notin inp]

\* The step is a request for an exam whose composition is refused.
RefusedStart ==
    \E b \in DifficultyButtons :
        \/ variant = "py" /\ b \in input' /\ Refused(Served(input')) /\ py_difficulty_press(b)
        \/ variant = "r" /\ Refused(b) /\ r_press(b)

\* C30: a request whose composition is refused leaves the quiz state (questions,
\* index, score, times, title, exam type) and the ledger as they were.
C30_RefusalFrame ==
    [][RefusedStart => (quiz' = quiz /\ progress' = progress /\ store' = store)]_vars

\* C30 witness: an exam by category is in progress with one question answered,
\* and the quick quiz was asked for over a pool of 3 questions.
C30_Witness ==
    /\ Button("quick_quiz", 0) \in input /\ Len(AllOf(1)) = 3
    /\ quiz.test_type = Some("category") /\ Len(quiz.time_spent) = 1

====
